---- MODULE Spec2Model ----
(***************************************************************************)
(* Fridge-to-Dish AI (src/app.py): one Streamlit session.                  *)
(*                                                                         *)
(* Streamlit executes the script from its first line on page load and      *)
(* again whenever the file uploader changes.  One execution of the script  *)
(* is one request.  pc is the script line about to execute; the blocking   *)
(* generate_content calls are split into "request sent" and "returned /    *)
(* raised" so that the in-flight states are visible.                       *)
(*                                                                         *)
(* Text is a sequence of tokens; a displayed message is the sequence of    *)
(* its whitespace-separated words.                                         *)
(*                                                                         *)
(* Exceptions are modelled where the script hands data to a library that   *)
(* can reject it: the secrets lookup (12), PIL decoding and re-encoding    *)
(* (99, 105, 114), the two generate_content calls (45, 80), and the        *)
(* display calls inside the try bodies (120-134).  Page chrome (88-93,     *)
(* 102) and the st.error calls of the handlers are taken to succeed.       *)
(***************************************************************************)
EXTENDS Integers, Sequences, FiniteSets, TLC

VARIABLES
    pc,                     \* script position of the current run
    key,                    \* what st.secrets holds for GOOGLE_API_KEY
    uploaded_file,          \* value of st.file_uploader (line 93)
    image,                  \* Image.open(uploaded_file) (line 99)
    image_data,             \* re-encoded image (lines 113-115)
    ingredients_list,       \* line 119
    recipe_recommendations, \* line 129
    requests,               \* generate_content calls of this run, in order
    shown,                  \* elements rendered by this run, in order
    raised_at,              \* pc at which this run raised, or "none"
    run,                    \* number of the current script run
    errlog                  \* stage-error texts rendered so far in the session

vars == <<pc, key, uploaded_file, image, image_data, ingredients_list,
          recipe_recommendations, requests, shown, raised_at, run, errlog>>

----------------------------------------------------------------------------
(* Bounds *)

MaxLen == 2

MaxRuns == 3

----------------------------------------------------------------------------
(* Input domains *)

Tokens == {"eggs", ",", " "}

RECURSIVE SeqsUpTo(_)
SeqsUpTo(n) ==
    IF n = 0 THEN {<< >>}
    ELSE LET shorter == SeqsUpTo(n - 1)
         IN  shorter \cup {Append(s, t) : s \in shorter, t \in Tokens}

\* response.text of the multimodal endpoint: free text, possibly empty
IngredientTexts == SeqsUpTo(MaxLen)

\* response.text of the text endpoint
RecipeTexts == {<<"No", "ingredients", "found">>, <<"##", "Omelette">>}

\* str(e) of a raised exception
ExcTexts == {<<"quota">>, <<"generating", "recipes">>}

Keys == {"valid", "invalid", "no_secrets_file", "no_key"}

Files == {"good", "not_image", "truncated", "read_only_format"}

Unbound == <<"<unbound>">>

----------------------------------------------------------------------------
(* Rendered elements *)

Element(w, b) == [widget |-> w, body |-> b]

MsgKeyNotFound ==
    <<"API", "key", "not", "found.", "Please", "add", "it", "to", "your",
      "Streamlit", "secrets.">>

MsgConfigError(e) == <<"Error", "configuring", "API", "key:">> \o e

AnalysisErrorHead == <<"Error", "analyzing", "image:">>

AnalysisHint ==
    <<"The", "AI", "couldn't", "understand", "the", "image.", "Try", "a",
      "clearer", "photo.">>

GenerationErrorHead == <<"Error", "generating", "recipes:">>

GenerationHint ==
    <<"The", "AI", "might", "be", "busy", "or", "the", "ingredients", "list",
      "was", "unclear.", "Please", "try", "again.">>

\* except Exception as e (lines 140-142)
OuterHandler(e) ==
    << Element("error", AnalysisErrorHead \o e),
       Element("error", AnalysisHint) >>

C3_SameTextHandler(e) ==
    << Element("error", AnalysisErrorHead \o e),
       Element("error", AnalysisHint) >>

\* except Exception as e (lines 136-138)
InnerHandler(e) ==
    << Element("error", GenerationErrorHead \o e),
       Element("error", GenerationHint) >>

PageChrome ==
    << Element("title", <<"Fridge-to-Dish", "AI">>),
       Element("write", <<"Upload", "a", "picture", "of", "your", "fridge,",
                          "and", "I'll", "tell", "you", "what", "you", "can",
                          "make!">>) >>

----------------------------------------------------------------------------
(* Prompts *)

\* get_image_analysis: prompt (lines 35-42)
ImagePrompt ==
    <<"You are a pantry expert. Analyze this image of a fridge and list all",
      "the edible food items and ingredients you can clearly identify.",
      "Ignore non-food items, containers, or brands.",
      "Output a simple, comma-separated list, along with the quantity available.",
      "Example: eggs, milk, broccoli, cheddar cheese, chicken thighs">>

PromptHead ==
    <<"You are a creative and practical chef. Your goal is to suggest 3",
      "delicious dishes based *only* on the ingredients provided.",
      "You can assume common pantry staples like salt, pepper, and olive oil are available.",
      "Here are the ingredients I have: ">>

PromptTail ==
    <<"Please return your 3 recommendations. For each dish, provide:",
      "- **Dish Name:**",
      "- **Description:** A short, enticing description.",
      "- **Key Ingredients Used:** (from my list)",
      "If no ingredients were found, return \"No ingredients found\"",
      "Format each dish clearly using Markdown for headings and bold text.">>

C5_TruncatingPrompt(ingredients) ==
    PromptHead
        \o SubSeq(ingredients, 1, IF Len(ingredients) > 1 THEN 1 ELSE Len(ingredients))
        \o PromptTail

\* get_recipe_recommendations: the f-string (lines 63-77)
RecipePrompt(ingredients) == PromptHead \o ingredients \o PromptTail

Request(f, content, img) ==
    [fn |-> f, content |-> content, image |-> img,
     status |-> "in_flight", response |-> Unbound]

Settle(reqs, st, resp) ==
    [reqs EXCEPT ![Len(reqs)] = [@ EXCEPT !.status = st, !.response = resp]]

----------------------------------------------------------------------------
(* Control flow *)

C2_NoStop == "page"

\* st.stop() (lines 17, 20)
AfterConfigError == "stopped"

C1_FallThrough == "brain_call"

\* end of the outer handler (line 142 is the last line of the script)
AfterOuterExcept == "done"

C8_Retry == "brain_call"

\* end of the inner handler (line 138), then out of the outer try
AfterInnerExcept == "done"

OuterDisplayPcs == {"success1", "expander"}

InnerDisplayPcs == {"success2", "subheader", "markdown"}

C4_SkipEmpty(p) ==
    CASE p = "success1"  -> "expander"
      [] p = "expander"  -> IF ingredients_list = << >> THEN "done" ELSE "brain_call"
      [] p = "success2"  -> "subheader"
      [] p = "subheader" -> "markdown"
      [] p = "markdown"  -> "done"

C7_RecipesFirst(p) ==
    CASE p = "success1"  -> "brain_call"
      [] p = "expander"  -> "done"
      [] p = "success2"  -> "subheader"
      [] p = "subheader" -> "markdown"
      [] p = "markdown"  -> "expander"

\* statement order of lines 120-134
Succ(p) ==
    CASE p = "success1"  -> "expander"
      [] p = "expander"  -> "brain_call"
      [] p = "success2"  -> "subheader"
      [] p = "subheader" -> "markdown"
      [] p = "markdown"  -> "done"

\* what each display statement renders
Widget(p) ==
    CASE p = "success1"  -> Element("success", <<"I've", "identified", "your", "ingredients!">>)
      [] p = "expander"  -> Element("ingredients", ingredients_list)
      [] p = "success2"  -> Element("success", <<"Recipes", "are", "ready!">>)
      [] p = "subheader" -> Element("subheader", <<"Here", "are", "your", "dish", "recommendations:">>)
      [] p = "markdown"  -> Element("recipes", recipe_recommendations)

Logged(stage, handler) ==
    {[stage |-> stage, body |-> handler[i].body] : i \in DOMAIN handler}

----------------------------------------------------------------------------
(* Initial state: page load, nothing uploaded yet *)

Init ==
    /\ pc = "configure"
    /\ key \in Keys
    /\ uploaded_file = "None"
    /\ image = "unbound"
    /\ image_data = "unbound"
    /\ ingredients_list = Unbound
    /\ recipe_recommendations = Unbound
    /\ requests = << >>
    /\ shown = << >>
    /\ raised_at = "none"
    /\ run = 1
    /\ errlog = {}

----------------------------------------------------------------------------
(* Lines 11-20: credential configuration *)

\* genai.configure stores the key; it does not contact the service
ConfigureOK ==
    /\ pc = "configure"
    /\ key \in {"valid", "invalid"}
    /\ pc' = "page"
    /\ UNCHANGED <<key, uploaded_file, image, image_data, ingredients_list,
                   recipe_recommendations, requests, shown, raised_at, run, errlog>>

\* st.secrets raises FileNotFoundError: no secrets file
ConfigureFileNotFound ==
    /\ pc = "configure"
    /\ key = "no_secrets_file"
    /\ shown' = Append(shown, Element("error", MsgKeyNotFound))
    /\ raised_at' = "configure"
    /\ pc' = AfterConfigError
    /\ UNCHANGED <<key, uploaded_file, image, image_data, ingredients_list,
                   recipe_recommendations, requests, run, errlog>>

\* any other exception: KeyError for an absent entry, or a value that
\* genai.configure rejects
ConfigureException ==
    /\ pc = "configure"
    /\ key \in {"no_key", "invalid"}
    /\ \E e \in ExcTexts :
          shown' = Append(shown, Element("error", MsgConfigError(e)))
    /\ raised_at' = "configure"
    /\ pc' = AfterConfigError
    /\ UNCHANGED <<key, uploaded_file, image, image_data, ingredients_list,
                   recipe_recommendations, requests, run, errlog>>

----------------------------------------------------------------------------
(* Lines 88-115: page, upload, decoding *)

Page ==
    /\ pc = "page"
    /\ shown' = shown \o PageChrome
    /\ pc' = IF uploaded_file = "None" THEN "done" ELSE "open_image"
    /\ UNCHANGED <<key, uploaded_file, image, image_data, ingredients_list,
                   recipe_recommendations, requests, raised_at, run, errlog>>

\* an exception outside every try: Streamlit renders it and the run ends
Uncaught(e) ==
    /\ shown' = Append(shown, Element("exception", e))
    /\ raised_at' = pc
    /\ pc' = "crashed"
    /\ UNCHANGED <<key, uploaded_file, image, image_data, ingredients_list,
                   recipe_recommendations, requests, run, errlog>>

OpenImage ==
    /\ pc = "open_image"
    /\ uploaded_file # "not_image"
    /\ image' = uploaded_file
    /\ pc' = "show_image"
    /\ UNCHANGED <<key, uploaded_file, image_data, ingredients_list,
                   recipe_recommendations, requests, shown, raised_at, run, errlog>>

\* PIL cannot identify the file
OpenImageRaises ==
    /\ pc = "open_image"
    /\ uploaded_file = "not_image"
    /\ \E e \in ExcTexts : Uncaught(e)

ShowImage ==
    /\ pc = "show_image"
    /\ image # "truncated"
    /\ shown' = Append(shown, Element("image", <<image>>))
    /\ pc' = "normalize"
    /\ UNCHANGED <<key, uploaded_file, image, image_data, ingredients_list,
                   recipe_recommendations, requests, raised_at, run, errlog>>

\* st.image loads the pixel data, which a truncated file does not hold
ShowImageRaises ==
    /\ pc = "show_image"
    /\ image = "truncated"
    /\ \E e \in ExcTexts : Uncaught(e)

Normalize ==
    /\ pc = "normalize"
    /\ image = "good"
    /\ image_data' = image
    /\ pc' = "eyes_call"
    /\ UNCHANGED <<key, uploaded_file, image, ingredients_list,
                   recipe_recommendations, requests, shown, raised_at, run, errlog>>

\* image.save(format=image.format) for a format PIL reads but cannot write
NormalizeRaises ==
    /\ pc = "normalize"
    /\ image = "read_only_format"
    /\ \E e \in ExcTexts : Uncaught(e)

----------------------------------------------------------------------------
(* Lines 118-142: the two stages *)

get_image_analysis_send ==
    /\ pc = "eyes_call"
    /\ requests' = Append(requests, Request("get_image_analysis", ImagePrompt, image_data))
    /\ pc' = "analyzing"
    /\ UNCHANGED <<key, uploaded_file, image, image_data, ingredients_list,
                   recipe_recommendations, shown, raised_at, run, errlog>>

get_image_analysis_return ==
    /\ pc = "analyzing"
    /\ key = "valid"
    /\ \E t \in IngredientTexts :
          /\ ingredients_list' = t
          /\ requests' = Settle(requests, "ok", t)
    /\ pc' = "success1"
    /\ UNCHANGED <<key, uploaded_file, image, image_data,
                   recipe_recommendations, shown, raised_at, run, errlog>>

get_image_analysis_raise ==
    /\ pc = "analyzing"
    /\ \E e \in ExcTexts :
          /\ shown' = shown \o OuterHandler(e)
          /\ errlog' = errlog \cup Logged("get_image_analysis", OuterHandler(e))
    /\ requests' = Settle(requests, "raised", Unbound)
    /\ raised_at' = pc
    /\ pc' = AfterOuterExcept
    /\ UNCHANGED <<key, uploaded_file, image, image_data, ingredients_list,
                   recipe_recommendations, run>>

Display ==
    /\ pc \in OuterDisplayPcs \cup InnerDisplayPcs
    /\ shown' = Append(shown, Widget(pc))
    /\ pc' = Succ(pc)
    /\ UNCHANGED <<key, uploaded_file, image, image_data, ingredients_list,
                   recipe_recommendations, requests, raised_at, run, errlog>>

\* a display statement of lines 120-124 raises: caught at line 140
DisplayRaisesOuter ==
    /\ pc \in OuterDisplayPcs
    /\ \E e \in ExcTexts :
          /\ shown' = shown \o OuterHandler(e)
          /\ errlog' = errlog \cup Logged("display", OuterHandler(e))
    /\ raised_at' = pc
    /\ pc' = AfterOuterExcept
    /\ UNCHANGED <<key, uploaded_file, image, image_data, ingredients_list,
                   recipe_recommendations, requests, run>>

get_recipe_recommendations_send ==
    /\ pc = "brain_call"
    /\ requests' = Append(requests,
                          Request("get_recipe_recommendations",
                                  RecipePrompt(ingredients_list), "none"))
    /\ pc' = "generating"
    /\ UNCHANGED <<key, uploaded_file, image, image_data, ingredients_list,
                   recipe_recommendations, shown, raised_at, run, errlog>>

get_recipe_recommendations_return ==
    /\ pc = "generating"
    /\ key = "valid"
    /\ \E r \in RecipeTexts :
          /\ recipe_recommendations' = r
          /\ requests' = Settle(requests, "ok", r)
    /\ pc' = "success2"
    /\ UNCHANGED <<key, uploaded_file, image, image_data, ingredients_list,
                   shown, raised_at, run, errlog>>

get_recipe_recommendations_raise ==
    /\ pc = "generating"
    /\ \E e \in ExcTexts :
          /\ shown' = shown \o InnerHandler(e)
          /\ errlog' = errlog \cup Logged("get_recipe_recommendations", InnerHandler(e))
    /\ requests' = Settle(requests, "raised", Unbound)
    /\ raised_at' = pc
    /\ pc' = AfterInnerExcept
    /\ UNCHANGED <<key, uploaded_file, image, image_data, ingredients_list,
                   recipe_recommendations, run>>

\* a display statement of lines 130-134 raises: caught at line 136
DisplayRaisesInner ==
    /\ pc \in InnerDisplayPcs
    /\ \E e \in ExcTexts :
          /\ shown' = shown \o InnerHandler(e)
          /\ errlog' = errlog \cup Logged("display", InnerHandler(e))
    /\ raised_at' = pc
    /\ pc' = AfterInnerExcept
    /\ UNCHANGED <<key, uploaded_file, image, image_data, ingredients_list,
                   recipe_recommendations, requests, run>>

----------------------------------------------------------------------------
(* The user changes the file uploader (rendered at line 93): the script    *)
(* runs again from line 1 on an empty page.                                *)

UploaderChanged ==
    /\ pc \in {"done", "crashed"}
    /\ run < MaxRuns
    /\ \E f \in Files \cup {"None"} :
          /\ ~(f = "None" /\ uploaded_file = "None")
          /\ uploaded_file' = f
    /\ run' = run + 1
    /\ pc' = "configure"
    /\ image' = "unbound"
    /\ image_data' = "unbound"
    /\ ingredients_list' = Unbound
    /\ recipe_recommendations' = Unbound
    /\ requests' = << >>
    /\ shown' = << >>
    /\ raised_at' = "none"
    /\ UNCHANGED <<key, errlog>>

Next ==
    \/ ConfigureOK
    \/ ConfigureFileNotFound
    \/ ConfigureException
    \/ Page
    \/ OpenImage
    \/ OpenImageRaises
    \/ ShowImage
    \/ ShowImageRaises
    \/ Normalize
    \/ NormalizeRaises
    \/ get_image_analysis_send
    \/ get_image_analysis_return
    \/ get_image_analysis_raise
    \/ Display
    \/ DisplayRaisesOuter
    \/ get_recipe_recommendations_send
    \/ get_recipe_recommendations_return
    \/ get_recipe_recommendations_raise
    \/ DisplayRaisesInner
    \/ UploaderChanged

Spec == Init /\ [][Next]_vars

----------------------------------------------------------------------------
(* Vocabulary of the properties *)

Calls(f) == {i \in DOMAIN requests : requests[i].fn = f}

Raised(f) == \E i \in Calls(f) : requests[i].status = "raised"

\* t occurs in s as a contiguous subsequence
Contains(s, t) ==
    \E i \in 0..(Len(s) - Len(t)) : SubSeq(s, i + 1, i + Len(t)) = t

HasPrefix(s, p) == Len(s) >= Len(p) /\ SubSeq(s, 1, Len(p)) = p

Mentions(s, words) == \A w \in words : \E i \in DOMAIN s : s[i] = w

IsPrefixOf(s, t) == Len(s) <= Len(t) /\ SubSeq(t, 1, Len(s)) = s

ShownAt(w) == {i \in DOMAIN shown : shown[i].widget = w}

AnalysisErrorShown ==
    \E i \in ShownAt("error") : HasPrefix(shown[i].body, AnalysisErrorHead)

GenerationErrorShown ==
    \E i \in ShownAt("error") : HasPrefix(shown[i].body, GenerationErrorHead)

RunEnded == pc \in {"done", "stopped", "crashed"}

\* the request's place in the pipeline's state machine
State ==
    CASE pc = "crashed"                                   -> "Crashed"
      [] pc = "stopped"                                   -> "ConfigurationError"
      [] pc # "crashed" /\ pc # "stopped" /\ AnalysisErrorShown
                                                          -> "AnalysisFailed"
      [] pc # "crashed" /\ pc # "stopped" /\ ~AnalysisErrorShown
            /\ GenerationErrorShown                       -> "GenerationFailed"
      [] OTHER ->
           CASE pc \in {"configure", "page"}                   -> "Idle"
             [] pc \in {"open_image", "show_image"}            -> "AwaitingImage"
             [] pc = "done" /\ recipe_recommendations = Unbound -> "AwaitingImage"
             [] pc \in {"normalize", "eyes_call", "analyzing"} -> "Analyzing"
             [] pc \in {"success1", "expander", "brain_call"}  -> "IngredientsReady"
             [] pc = "generating"                              -> "Generating"
             [] OTHER                                          -> "RecipesReady"

Failed == State \in {"AnalysisFailed", "GenerationFailed"}

----------------------------------------------------------------------------
(* C1: the Reasoning stage is invoked only after the Perception stage has  *)
(* been called exactly once and has returned successfully; when the        *)
(* Perception call raises, the Reasoning stage is not invoked in that run. *)
C1_ReasoningAfterPerception ==
    /\ \A i \in Calls("get_recipe_recommendations") :
          /\ Cardinality(Calls("get_image_analysis")) = 1
          /\ \A j \in Calls("get_image_analysis") :
                j < i /\ requests[j].status = "ok"
    /\ Raised("get_image_analysis") => Calls("get_recipe_recommendations") = {}

C1_Witness ==
    /\ pc = "generating"
    /\ Calls("get_recipe_recommendations") # {}

(* C2: with a missing API key the script shows an error and halts before   *)
(* the page and the uploader are reached; no request is sent to either     *)
(* endpoint.                                                               *)
C2_MissingKeyNoRequest ==
    key \in {"no_secrets_file", "no_key"} =>
        /\ pc \in {"configure", "stopped"}
        /\ requests = << >>
        /\ uploaded_file = "None"
        /\ pc = "stopped" => /\ ShownAt("error") # {}
                             /\ ShownAt("title") = {}

C2_Witness ==
    /\ key \in {"no_secrets_file", "no_key"}
    /\ pc = "stopped"
    /\ ShownAt("error") # {}

(* C3: a failed Perception call ends the run in AnalysisFailed with a      *)
(* message mentioning analyzing the image; a failed Reasoning call ends    *)
(* the run in GenerationFailed with a message mentioning generating        *)
(* recipes; no text shown for one failure equals a text shown for the      *)
(* other, in any run of the session.                                       *)
C3_FailureMessages ==
    /\ Raised("get_image_analysis") =>
          /\ pc = "done"
          /\ State = "AnalysisFailed"
          /\ \E i \in ShownAt("error") :
                Mentions(shown[i].body, {"analyzing", "image:"})
    /\ Raised("get_recipe_recommendations") =>
          /\ pc = "done"
          /\ State = "GenerationFailed"
          /\ \E i \in ShownAt("error") :
                Mentions(shown[i].body, {"generating", "recipes:"})
    /\ \A a, b \in errlog :
          (a.stage = "get_image_analysis" /\ b.stage = "get_recipe_recommendations")
              => a.body # b.body

C3_Witness ==
    /\ raised_at = "generating"
    /\ pc = "done"
    /\ \E a \in errlog : a.stage = "get_image_analysis"
    /\ \E b \in errlog : b.stage = "get_recipe_recommendations"

C5_PromptContainsIngredients ==
    \A i \in Calls("get_recipe_recommendations") :
        /\ \E j \in Calls("get_image_analysis") : requests[j].status = "ok"
        /\ \A j \in Calls("get_image_analysis") :
              requests[j].status = "ok" =>
                  Contains(requests[i].content, requests[j].response)

C5_Witness ==
    /\ Calls("get_recipe_recommendations") # {}
    /\ Len(ingredients_list) >= 2
    /\ ingredients_list[1] = " "

(* C7: the ingredient list is on the page, with the text the Perception    *)
(* stage returned, before the Reasoning request is issued; nothing shown   *)
(* in a run is taken back during that run; recipes and stage errors come   *)
(* after the ingredient list.                                              *)
C7_Order ==
    /\ Calls("get_recipe_recommendations") # {} =>
          \E i \in ShownAt("ingredients") :
              \E j \in Calls("get_image_analysis") :
                  shown[i].body = requests[j].response
    /\ \A i \in ShownAt("ingredients") :
          \A j \in ShownAt("recipes") \cup ShownAt("error") : i < j
    /\ ShownAt("recipes") # {} => ShownAt("ingredients") # {}

C7_Step ==
    /\ (Len(requests') > Len(requests)
          /\ requests'[Len(requests')].fn = "get_recipe_recommendations")
       => ShownAt("ingredients") # {}
    /\ run' = run => IsPrefixOf(shown, shown')

C7_IngredientsBeforeRecipes == [](C7_Order) /\ [][C7_Step]_vars

C7_Witness ==
    /\ pc = "done"
    /\ raised_at = "generating"
    /\ ShownAt("ingredients") # {}
    /\ GenerationErrorShown

(* C8: in one run each endpoint receives at most one call, and from        *)
(* AnalysisFailed or GenerationFailed no step of the same run sends a      *)
(* request or leaves the failure state.                                    *)
C8_AtMostOnce ==
    /\ Cardinality(Calls("get_image_analysis")) <= 1
    /\ Cardinality(Calls("get_recipe_recommendations")) <= 1

C8_Terminal ==
    (Failed /\ run' = run) => (requests' = requests /\ State' = State /\ pc' = pc)

C8_NoRetry == [](C8_AtMostOnce) /\ [][C8_Terminal]_vars

C8_Witness ==
    /\ run = MaxRuns
    /\ State = "AnalysisFailed"
    /\ Raised("get_image_analysis")
    /\ errlog # {}

----------------------------------------------------------------------------
(* C6: with an invalid (present but unusable) API key no request reaches   *)
(* an endpoint and no stage error is shown.                                *)
C6_InvalidKeyHaltsAtStartup ==
    key = "invalid" =>
        /\ requests = << >>
        /\ ~AnalysisErrorShown
        /\ ~GenerationErrorShown

(* C9: the analysis error is shown only when the Perception call raised,   *)
(* the generation error only when the Reasoning call raised, and never     *)
(* both in one run.                                                        *)
C9_MessageNamesFailedStage ==
    /\ AnalysisErrorShown => Raised("get_image_analysis")
    /\ GenerationErrorShown => Raised("get_recipe_recommendations")
    /\ ~(AnalysisErrorShown /\ GenerationErrorShown)

(* C10: a run that starts from an uploaded file is always in a state of    *)
(* the pipeline's machine and, once ended, in exactly one of Recipes-Ready,*)
(* AnalysisFailed, GenerationFailed.                                       *)
C10_EndsInTerminalState ==
    uploaded_file # "None" =>
        /\ State \in {"Idle", "AwaitingImage", "Analyzing", "IngredientsReady",
                      "Generating", "RecipesReady", "AnalysisFailed",
                      "GenerationFailed"}
        /\ RunEnded => State \in {"RecipesReady", "AnalysisFailed", "GenerationFailed"}

====
